---- MODULE Spec2Model ----
(***************************************************************************)
(* Conversation context manager of the conference voice assistant          *)
(* (ContextManager, src/unnamed/part_004): the per-session conversation    *)
(* store, the three resolution passes, entity extraction, the capped       *)
(* entity sets, the history trim and the periodic expiry sweep.            *)
(*                                                                         *)
(* Text.  A JavaScript string is a sequence of tokens; a token is a word   *)
(* or one of the fixed phrases the code searches for.  toLowerCase maps    *)
(* every token through Lower, String.includes(w) is "some token equals w", *)
(* and String.replace(/a|b/gi, x) splices x in place of every token whose  *)
(* lower-cased form is a or b.  The empty sequence stands for every falsy  *)
(* string value (missing key, undefined, null, ""): the code only tests    *)
(* these values by truthiness.                                             *)
(*                                                                         *)
(* Time is counted in minutes.                                             *)
(***************************************************************************)
EXTENDS Integers, Sequences, FiniteSets, TLC

VARIABLES
    contexts,   \* this.contexts: the Map sessionId -> context (its DOMAIN is the key set)
    now,        \* the clock read by new Date(), in minutes
    timer,      \* the setInterval timer: [active, next] (next: when it fires)
    ret,        \* the last call of the public API: its arguments and what it returned
    recorded,   \* history variable: updateContext calls on a session since its context was created
    inserted,   \* history variable: the values that entered each Set of a session (Set.add of
                \* a value not in the Set), in order, since its context was created
    evicted,    \* the console log of the sweep: the sessions it has reported as cleaned up
    voice       \* the VoiceHandler: the requests suspended at `await executeFunction`
                \* (pending), how many requests it has taken (issued) and how many of
                \* them call the ContextManager for each session (recording), the
                \* request whose continuation ran last with the result of its fetch
                \* (last, result) and the updateContext calls that continuation made
                \* (updates), and for each session the request whose updateContext
                \* ran last (lastUpdate)

vars == <<contexts, now, timer, ret, recorded, inserted, evicted, voice>>

----------------------------------------------------------------------------
\* Bounds of the model.

MaxTime == 15        \* the clock stops here
MaxCalls == 1        \* updateContext calls per context in Spec
HistCalls == 12      \* updateContext calls in SpecHist
EntCalls == 4        \* updateContext calls in SpecEnt
BatchSize == 7       \* rows of one result batch in SpecEnt
ResCalls == 2        \* updateContext calls per context in SpecResolve

\* Program constants.

HistoryLimit == 10       \* conversationHistory.slice(-10)
MaxSpeakers == 20        \* limitSetSize(context.mentionedSpeakers, 20)
MaxSessions == 15        \* limitSetSize(context.mentionedSessions, 15)
MaxSearchTerms == 10     \* limitSetSize(context.recentSearchTerms, 10)
CONTEXT_TIMEOUT == 10    \* 10 * 60 * 1000 ms
CleanupEvery == 5        \* setInterval(..., 5 * 60 * 1000)

----------------------------------------------------------------------------
\* Text.

Range(f) == {f[i] : i \in DOMAIN f}

\* String.prototype.toLowerCase, token by token.
LowerToken(t) ==
    CASE t = "Jason" -> "jason"
      [] t = "Sarah" -> "sarah"
      [] t = "Maya" -> "maya"
      [] t = "AI" -> "ai"
      [] t = "Leadership" -> "leadership"
      [] t = "Keynote" -> "keynote"
      [] t = "Workshop" -> "workshop"
      [] t = "Meet" -> "meet"
      [] t = "Talk" -> "talk"
      [] t = "That Speaker" -> "that speaker"
      [] t = "The Speaker" -> "the speaker"
      [] t = "That Session" -> "that session"
      [] t = "Same Topic" -> "same topic"
      [] t = "Similar" -> "similar"
      [] t = "First" -> "first"
      [] t = "Last" -> "last"
      [] t = "S" -> "s"
      [] t = "T" -> "t"
      [] t = "P" -> "p"
      [] t = "Q" -> "q"
      [] OTHER -> t

toLowerCase(text) == [i \in DOMAIN text |-> LowerToken(text[i])]

\* String.prototype.includes(word): case-sensitive containment.
includes(text, word) == \E i \in DOMAIN text : text[i] = word

includesAny(text, words) == \E i \in DOMAIN text : text[i] \in words

RECURSIVE replaceAllCI(_, _, _)
\* text.replace(/p1|p2/gi, subst): every token that lower-cases to one of the
\* phrases is replaced by the text subst.
replaceAllCI(text, phrases, subst) ==
    IF text = <<>> THEN <<>>
    ELSE (IF LowerToken(Head(text)) \in phrases THEN subst ELSE <<Head(text)>>)
             \o replaceAllCI(Tail(text), phrases, subst)

RECURSIVE replaceFirst(_, _)
\* text.replace(word, ''): a string pattern replaces the first occurrence only.
replaceFirst(text, word) ==
    IF text = <<>> THEN <<>>
    ELSE IF Head(text) = word THEN Tail(text)
    ELSE <<Head(text)>> \o replaceFirst(Tail(text), word)

\* A JavaScript Set iterates in the order of first insertion: adding a value
\* that is already present changes nothing.
SetAdd(set, x) == IF x \in Range(set) THEN set ELSE Append(set, x)

RECURSIVE SetAddAll(_, _)
SetAddAll(set, xs) ==
    IF xs = <<>> THEN set ELSE SetAddAll(SetAdd(set, Head(xs)), Tail(xs))

\* The values of xs that enter the Set: those Set.add finds absent.
Entered(set, xs) == SubSeq(SetAddAll(set, xs), Len(set) + 1, Len(SetAddAll(set, xs)))

\* Array.prototype.slice(-n)
SliceLast(seq, n) ==
    IF Len(seq) <= n THEN seq ELSE SubSeq(seq, Len(seq) - n + 1, Len(seq))

----------------------------------------------------------------------------
\* Parameters, result rows, results.

NoText == <<>>

ParamKeys == {"speaker_name", "topic", "query", "session_query", "session_type"}

NoParams == [k \in ParamKeys |-> NoText]

Params(speaker_name, topic, query, session_query, session_type) ==
    [k \in ParamKeys |->
        CASE k = "speaker_name" -> speaker_name
          [] k = "topic" -> topic
          [] k = "query" -> query
          [] k = "session_query" -> session_query
          [] k = "session_type" -> session_type]

Row(title, speaker) == [title |-> title, speaker |-> speaker]

Results(success, data) == [success |-> success, count |-> Len(data), data |-> data]

NoTopic == <<"<null>">>     \* currentTopic: null
NoQuery == [functionName |-> "<null>", parameters |-> NoParams, results |-> <<>>, timestamp |-> 0]

----------------------------------------------------------------------------
\* The context manager.

\* Mutant of createNewContext: a new context starts with a default topic.
createNewContextDefaultTopic(sessionId, date) ==
    [sessionId |-> sessionId,
     createdAt |-> date,
     lastActivity |-> date,
     conversationHistory |-> <<>>,
     lastQuery |-> NoQuery,
     lastResults |-> <<>>,
     currentTopic |-> <<"current sessions">>,
     mentionedSpeakers |-> <<>>,
     mentionedSessions |-> <<>>,
     recentSearchTerms |-> <<>>]

createNewContext(sessionId, date) ==
    [sessionId |-> sessionId,
     createdAt |-> date,
     lastActivity |-> date,
     conversationHistory |-> <<>>,
     lastQuery |-> NoQuery,
     lastResults |-> <<>>,
     currentTopic |-> NoTopic,
     mentionedSpeakers |-> <<>>,
     mentionedSessions |-> <<>>,
     recentSearchTerms |-> <<>>]

Tracked == DOMAIN contexts

\* Mutant of getContext: lastActivity is set to the start of the timeout window
\* that ends at the access instead of the time of the access.
getContextStoreRewinding(store, sessionId, date) ==
    LET ctx == IF sessionId \in DOMAIN store THEN store[sessionId]
               ELSE createNewContext(sessionId, date)
    IN [t \in DOMAIN store \cup {sessionId} |->
           IF t = sessionId THEN [ctx EXCEPT !.lastActivity = date - CONTEXT_TIMEOUT]
           ELSE store[t]]

\* Mutant of getContextStore: a context idle for longer than the timeout is
\* replaced by a new one.
getContextStoreExpiring(store, sessionId, date) ==
    LET ctx == IF sessionId \in DOMAIN store
                    /\ date - store[sessionId].lastActivity <= CONTEXT_TIMEOUT
               THEN store[sessionId]
               ELSE createNewContext(sessionId, date)
    IN [t \in DOMAIN store \cup {sessionId} |->
           IF t = sessionId THEN [ctx EXCEPT !.lastActivity = date] ELSE store[t]]

\* getContext: the Map after the call.
getContextStore(store, sessionId, date) ==
    LET ctx == IF sessionId \in DOMAIN store THEN store[sessionId]
               ELSE createNewContext(sessionId, date)
    IN [t \in DOMAIN store \cup {sessionId} |->
           IF t = sessionId THEN [ctx EXCEPT !.lastActivity = date] ELSE store[t]]

\* Mutant of limitSetSize: slice(-(maxSize + 1)), one entry too many survives.
limitSetSizeOffByOne(set, maxSize) ==
    IF Len(set) > maxSize THEN SliceLast(set, maxSize + 1) ELSE set

\* Mutant of limitSetSize: slice(0, maxSize), the newest entries are dropped.
limitSetSizeKeepFirst(set, maxSize) ==
    IF Len(set) > maxSize THEN SubSeq(set, 1, maxSize) ELSE set

limitSetSize(set, maxSize) ==
    IF Len(set) > maxSize THEN SliceLast(set, maxSize) ELSE set

\* The values extractEntities hands to each Set.add, in call order.
RECURSIVE RowSpeakers(_)
RowSpeakers(data) ==
    IF data = <<>> THEN <<>>
    ELSE (IF Head(data).speaker # NoText THEN <<toLowerCase(Head(data).speaker)>> ELSE <<>>)
             \o RowSpeakers(Tail(data))

RECURSIVE RowTitles(_)
RowTitles(data) ==
    IF data = <<>> THEN <<>>
    ELSE (IF Head(data).title # NoText THEN <<toLowerCase(Head(data).title)>> ELSE <<>>)
             \o RowTitles(Tail(data))

SpeakerAdds(parameters, results) ==
    (IF parameters.speaker_name # NoText THEN <<toLowerCase(parameters.speaker_name)>> ELSE <<>>)
        \o RowSpeakers(results.data)

SessionAdds(parameters, results) == RowTitles(results.data)

TermAdds(parameters, results) ==
    (IF parameters.speaker_name # NoText THEN <<toLowerCase(parameters.speaker_name)>> ELSE <<>>)
        \o (IF parameters.topic # NoText THEN <<toLowerCase(parameters.topic)>> ELSE <<>>)
        \o (IF parameters.query # NoText THEN <<toLowerCase(parameters.query)>> ELSE <<>>)

\* Mutant of extractEntities: the topic parameter is remembered as a speaker too.
extractEntitiesTopicAsSpeaker(context, parameters, results) ==
    [context EXCEPT
        !.mentionedSpeakers =
            limitSetSize(SetAddAll(@, SpeakerAdds(parameters, results)
                                        \o (IF parameters.topic # NoText
                                            THEN <<toLowerCase(parameters.topic)>> ELSE <<>>)),
                         MaxSpeakers),
        !.mentionedSessions =
            limitSetSize(SetAddAll(@, SessionAdds(parameters, results)), MaxSessions),
        !.recentSearchTerms =
            limitSetSize(SetAddAll(@, TermAdds(parameters, results)), MaxSearchTerms)]

extractEntities(context, parameters, results) ==
    [context EXCEPT
        !.mentionedSpeakers =
            limitSetSize(SetAddAll(@, SpeakerAdds(parameters, results)), MaxSpeakers),
        !.mentionedSessions =
            limitSetSize(SetAddAll(@, SessionAdds(parameters, results)), MaxSessions),
        !.recentSearchTerms =
            limitSetSize(SetAddAll(@, TermAdds(parameters, results)), MaxSearchTerms)]

\* Mutant of updateCurrentTopic: an operation outside the mapping resets the topic.
updateCurrentTopicResetting(context, functionName, parameters) ==
    IF functionName = "search_sessions_by_topic" /\ parameters.topic # NoText
    THEN [context EXCEPT !.currentTopic = toLowerCase(parameters.topic)]
    ELSE IF functionName = "search_sessions_by_speaker" /\ parameters.speaker_name # NoText
    THEN [context EXCEPT !.currentTopic = <<"speaker: ">> \o toLowerCase(parameters.speaker_name)]
    ELSE IF functionName = "search_sessions_by_type" /\ parameters.session_type # NoText
    THEN [context EXCEPT !.currentTopic = <<"type: ">> \o toLowerCase(parameters.session_type)]
    ELSE IF functionName = "get_current_sessions"
    THEN [context EXCEPT !.currentTopic = <<"current sessions">>]
    ELSE IF functionName = "get_upcoming_sessions"
    THEN [context EXCEPT !.currentTopic = <<"upcoming sessions">>]
    ELSE [context EXCEPT !.currentTopic = NoTopic]

updateCurrentTopic(context, functionName, parameters) ==
    IF functionName = "search_sessions_by_topic" /\ parameters.topic # NoText
    THEN [context EXCEPT !.currentTopic = toLowerCase(parameters.topic)]
    ELSE IF functionName = "search_sessions_by_speaker" /\ parameters.speaker_name # NoText
    THEN [context EXCEPT !.currentTopic = <<"speaker: ">> \o toLowerCase(parameters.speaker_name)]
    ELSE IF functionName = "search_sessions_by_type" /\ parameters.session_type # NoText
    THEN [context EXCEPT !.currentTopic = <<"type: ">> \o toLowerCase(parameters.session_type)]
    ELSE IF functionName = "get_current_sessions"
    THEN [context EXCEPT !.currentTopic = <<"current sessions">>]
    ELSE IF functionName = "get_upcoming_sessions"
    THEN [context EXCEPT !.currentTopic = <<"upcoming sessions">>]
    ELSE context

\* Mutant of trimHistory: slice(0, 10), the newest records are dropped.
trimHistoryKeepFirst(history) ==
    IF Len(history) > HistoryLimit THEN SubSeq(history, 1, HistoryLimit) ELSE history

\* conversationHistory after the push and the trim.
trimHistory(history) ==
    IF Len(history) > HistoryLimit THEN SliceLast(history, HistoryLimit) ELSE history

\* The context updateContext leaves behind; seq numbers the entry among the
\* calls made on this context (history information, not a field of the code).
\* Mutant of updatedContext: a call whose fetch failed is not recorded.
updatedContextSkippingFailures(context, functionName, parameters, results, date, seq) ==
    IF ~results.success THEN context
    ELSE LET entry == [timestamp |-> date,
                       functionName |-> functionName,
                       parameters |-> parameters,
                       resultCount |-> results.count,
                       success |-> results.success,
                       seq |-> seq]
             c1 == [context EXCEPT
                       !.conversationHistory = trimHistory(Append(@, entry)),
                       !.lastQuery = [functionName |-> functionName,
                                      parameters |-> parameters,
                                      results |-> results.data,
                                      timestamp |-> date],
                       !.lastResults = results.data]
         IN updateCurrentTopic(extractEntities(c1, parameters, results),
                               functionName, parameters)

updatedContext(context, functionName, parameters, results, date, seq) ==
    LET entry == [timestamp |-> date,
                  functionName |-> functionName,
                  parameters |-> parameters,
                  resultCount |-> results.count,
                  success |-> results.success,
                  seq |-> seq]
        c1 == [context EXCEPT
                  !.conversationHistory = trimHistory(Append(@, entry)),
                  !.lastQuery = [functionName |-> functionName,
                                 parameters |-> parameters,
                                 results |-> results.data,
                                 timestamp |-> date],
                  !.lastResults = results.data]
    IN updateCurrentTopic(extractEntities(c1, parameters, results), functionName, parameters)

----------------------------------------------------------------------------
\* The reference resolver.

NoOrdinal == -2      \* extractOrdinalReference: return null

NoRow == [title |-> <<"<null>">>, speaker |-> <<"<null>">>]    \* getSessionByOrdinal: return null

\* Object.entries(ordinals): the table in the order its keys are written.
Ordinals ==
    << <<"first", 0>>, <<"second", 1>>, <<"third", 2>>, <<"fourth", 3>>, <<"fifth", 4>>,
       <<"last", -1>>, <<"latest", -1>>, <<"newest", -1>>,
       <<"1st", 0>>, <<"2nd", 1>>, <<"3rd", 2>>, <<"4th", 3>>, <<"5th", 4>> >>

\* Mutant of extractOrdinalReference: the table word that stands first in the
\* text decides.
extractOrdinalReferenceByPosition(text) ==
    LET lowerText == toLowerCase(text)
        at == {p \in DOMAIN lowerText :
                  \E i \in DOMAIN Ordinals : Ordinals[i][1] = lowerText[p]}
        first == CHOOSE p \in at : \A q \in at : p <= q
    IN IF at = {} THEN NoOrdinal
       ELSE Ordinals[CHOOSE i \in DOMAIN Ordinals : Ordinals[i][1] = lowerText[first]][2]

extractOrdinalReference(text) ==
    LET lowerText == toLowerCase(text)
        hits == {i \in DOMAIN Ordinals : includes(lowerText, Ordinals[i][1])}
    IN IF hits = {} THEN NoOrdinal
       ELSE Ordinals[CHOOSE i \in hits : \A j \in hits : i <= j][2]

\* Mutant of getSessionByOrdinal: an index past the end selects the last row.
getSessionByOrdinalClamped(results, ordinalIndex) ==
    IF Len(results) = 0 THEN NoRow
    ELSE IF ordinalIndex = -1 \/ ordinalIndex >= Len(results) THEN results[Len(results)]
    ELSE IF ordinalIndex >= 0 THEN results[ordinalIndex + 1]
    ELSE NoRow

getSessionByOrdinal(results, ordinalIndex) ==
    IF Len(results) = 0 THEN NoRow
    ELSE IF ordinalIndex = -1 THEN results[Len(results)]
    ELSE IF ordinalIndex >= 0 /\ ordinalIndex < Len(results) THEN results[ordinalIndex + 1]
    ELSE NoRow

\* if (ordinalMatch): null and the number 0 are both falsy.
Truthy(ordinalMatch) == ordinalMatch # NoOrdinal /\ ordinalMatch # 0

\* targetSession.title || targetSession.speaker?.name
TitleOrSpeaker(row) == IF row.title # NoText THEN row.title ELSE row.speaker

\* Mutant of resolveFollowUpQueries: the speaker is taken from the first row,
\* whether it has one or not.
resolveFollowUpQueriesFirstRow(context, functionName, parameters) ==
    IF Len(context.lastResults) = 0 THEN parameters
    ELSE LET ordinalMatch == extractOrdinalReference(parameters.session_query)
             targetSession == getSessionByOrdinal(context.lastResults, ordinalMatch)
         IN IF functionName = "get_session_details" /\ Truthy(ordinalMatch)
                  /\ targetSession # NoRow
            THEN [parameters EXCEPT !.session_query = TitleOrSpeaker(targetSession)]
            ELSE IF functionName = "search_sessions_by_speaker"
                      /\ parameters.speaker_name = NoText
            THEN [parameters EXCEPT !.speaker_name = context.lastResults[1].speaker]
            ELSE parameters

resolveFollowUpQueries(context, functionName, parameters) ==
    IF Len(context.lastResults) = 0 THEN parameters
    ELSE LET ordinalMatch == extractOrdinalReference(parameters.session_query)
             targetSession == getSessionByOrdinal(context.lastResults, ordinalMatch)
             withSpeaker == {i \in DOMAIN context.lastResults :
                                context.lastResults[i].speaker # NoText}
             firstSpeaker == context.lastResults[
                                CHOOSE i \in withSpeaker : \A j \in withSpeaker : i <= j]
         IN IF functionName = "get_session_details" /\ Truthy(ordinalMatch)
                  /\ targetSession # NoRow
            THEN [parameters EXCEPT !.session_query = TitleOrSpeaker(targetSession)]
            ELSE IF functionName = "search_sessions_by_speaker"
                      /\ parameters.speaker_name = NoText /\ withSpeaker # {}
            THEN [parameters EXCEPT !.speaker_name = firstSpeaker.speaker]
            ELSE parameters

\* Mutant of getRecentEntity: shift() instead of pop(), the oldest entry.
getRecentEntityOldest(entitySet) ==
    IF Len(entitySet) = 0 THEN NoText ELSE entitySet[1]

\* Array.from(entitySet).pop(); NoText stands for null.
getRecentEntity(entitySet) ==
    IF Len(entitySet) = 0 THEN NoText ELSE entitySet[Len(entitySet)]

SpeakerPhrases == {"that speaker", "the speaker"}
SessionPhrases == {"that session", "the session"}
TopicPhrases == {"same topic", "that topic"}

\* Mutant of replaceContextualTerms: the replacements are made without testing
\* that a substitute exists; a missing speaker or session is spliced in as "null".
replaceContextualTermsUnchecked(context, text) ==
    LET lowerText == toLowerCase(text)
        recentSpeaker == getRecentEntity(context.mentionedSpeakers)
        recentSession == getRecentEntity(context.mentionedSessions)
    IN IF includesAny(lowerText, SpeakerPhrases)
       THEN replaceAllCI(text, SpeakerPhrases,
                         IF recentSpeaker # NoText THEN recentSpeaker ELSE <<"null">>)
       ELSE IF includesAny(lowerText, SessionPhrases)
       THEN replaceAllCI(text, SessionPhrases,
                         IF recentSession # NoText THEN recentSession ELSE <<"null">>)
       ELSE IF includesAny(lowerText, TopicPhrases)
       THEN replaceAllCI(text, TopicPhrases,
                         IF context.currentTopic # NoTopic
                         THEN replaceFirst(context.currentTopic, "type: ") ELSE <<"null">>)
       ELSE text

replaceContextualTerms(context, text) ==
    LET lowerText == toLowerCase(text)
        recentSpeaker == getRecentEntity(context.mentionedSpeakers)
        recentSession == getRecentEntity(context.mentionedSessions)
    IN IF includesAny(lowerText, SpeakerPhrases) /\ recentSpeaker # NoText
       THEN replaceAllCI(text, SpeakerPhrases, recentSpeaker)
       ELSE IF includesAny(lowerText, SessionPhrases) /\ recentSession # NoText
       THEN replaceAllCI(text, SessionPhrases, recentSession)
       ELSE IF includesAny(lowerText, TopicPhrases)
                 /\ context.currentTopic # NoTopic
                 /\ Head(context.currentTopic) # "speaker: "
       THEN replaceAllCI(text, TopicPhrases, replaceFirst(context.currentTopic, "type: "))
       ELSE text

resolveContextualReferences(context, parameters) ==
    [k \in ParamKeys |-> replaceContextualTerms(context, parameters[k])]

RelativeWords == {"similar", "related", "like this"}

\* Mutant of resolveRelativeReferences: currentTopic is copied with its prefix.
resolveRelativeReferencesKeepPrefix(context, parameters) ==
    [k \in ParamKeys |->
        IF includesAny(parameters[k], RelativeWords)
              /\ context.currentTopic # NoTopic /\ k = "topic"
        THEN context.currentTopic
        ELSE parameters[k]]

resolveRelativeReferences(context, parameters) ==
    [k \in ParamKeys |->
        IF includesAny(parameters[k], RelativeWords)
              /\ context.currentTopic # NoTopic /\ k = "topic"
        THEN replaceFirst(replaceFirst(context.currentTopic, "speaker: "), "type: ")
        ELSE parameters[k]]

\* The three passes of resolveContextualQuery on a context.
resolvePasses(context, functionName, parameters) ==
    resolveRelativeReferences(context,
        resolveContextualReferences(context,
            resolveFollowUpQueries(context, functionName, parameters)))

----------------------------------------------------------------------------
\* Suggestions and the conversation summary.

\* The prompts of generateSuggestions, each a text.
FollowUpPrompts == << <<"Tell me about the second one">>, <<"Who's speaking at the last session?">> >>
TopicPrompts == << <<"Find more sessions like this">>, <<"What else is happening at the same time?">> >>
SpeakerPrompt(speaker) == <<"Tell me more about ">> \o speaker

MaxSuggestions == 3      \* suggestions.slice(0, 3)

\* Mutant of generateSuggestions: the speaker prompt is generated first.
generateSuggestionsSpeakerFirst(store, sessionId) ==
    IF sessionId \notin DOMAIN store THEN <<>>
    ELSE LET context == store[sessionId]
             suggestions ==
                 (IF Len(context.mentionedSpeakers) > 0
                  THEN <<SpeakerPrompt(getRecentEntity(context.mentionedSpeakers))>> ELSE <<>>)
                 \o (IF Len(context.lastResults) > 1 THEN FollowUpPrompts ELSE <<>>)
                 \o (IF context.currentTopic # NoTopic THEN TopicPrompts ELSE <<>>)
         IN SubSeq(suggestions, 1,
                   IF Len(suggestions) < MaxSuggestions THEN Len(suggestions) ELSE MaxSuggestions)

generateSuggestions(store, sessionId) ==
    IF sessionId \notin DOMAIN store THEN <<>>
    ELSE LET context == store[sessionId]
             suggestions ==
                 (IF Len(context.lastResults) > 1 THEN FollowUpPrompts ELSE <<>>)
                 \o (IF context.currentTopic # NoTopic THEN TopicPrompts ELSE <<>>)
                 \o (IF Len(context.mentionedSpeakers) > 0
                     THEN <<SpeakerPrompt(getRecentEntity(context.mentionedSpeakers))>> ELSE <<>>)
         IN SubSeq(suggestions, 1,
                   IF Len(suggestions) < MaxSuggestions THEN Len(suggestions) ELSE MaxSuggestions)

\* getConversationSummary: return null
NoSummary ==
    [sessionId |-> "<null>", duration |-> 0, interactionCount |-> 0, currentTopic |-> NoTopic,
     mentionedSpeakers |-> <<>>, mentionedSessions |-> <<>>, lastActivity |-> 0,
     suggestions |-> <<>>]

\* Mutant of getConversationSummary: the count is taken from the last result rows.
getConversationSummaryOfResults(store, sessionId, date) ==
    IF sessionId \notin DOMAIN store THEN NoSummary
    ELSE LET context == store[sessionId]
         IN [sessionId |-> sessionId,
             duration |-> date - context.createdAt,
             interactionCount |-> Len(context.lastResults),
             currentTopic |-> context.currentTopic,
             mentionedSpeakers |-> context.mentionedSpeakers,
             mentionedSessions |-> context.mentionedSessions,
             lastActivity |-> context.lastActivity,
             suggestions |-> generateSuggestions(store, sessionId)]

getConversationSummary(store, sessionId, date) ==
    IF sessionId \notin DOMAIN store THEN NoSummary
    ELSE LET context == store[sessionId]
         IN [sessionId |-> sessionId,
             duration |-> date - context.createdAt,
             interactionCount |-> Len(context.conversationHistory),
             currentTopic |-> context.currentTopic,
             mentionedSpeakers |-> context.mentionedSpeakers,
             mentionedSessions |-> context.mentionedSessions,
             lastActivity |-> context.lastActivity,
             suggestions |-> generateSuggestions(store, sessionId)]

----------------------------------------------------------------------------
\* The public API as actions.

SessionIds == {"s1", "s2"}

Restrict(f, S) == [t \in S |-> f[t]]

NoLog == [speakers |-> <<>>, sessions |-> <<>>, terms |-> <<>>]

\* created: the call took the branch of getContext that creates the context;
\* again: a resolve or a shutdown that repeats the call before it (same session,
\* operation, parameters); suggestions and summary: what generateSuggestions
\* and getConversationSummary returned; index: what extractOrdinalReference
\* returned; stale: the context getContext fetched had gone without an access
\* for longer than the timeout.
Ret(op, sid, fn, raw, out, removed) ==
    [op |-> op, sid |-> sid, fn |-> fn, raw |-> raw, out |-> out, removed |-> removed,
     created |-> op \in {"getContext", "resolve", "update"} /\ sid \notin Tracked,
     again |-> op \in {"resolve", "shutdown"} /\ ret.op = op /\ ret.sid = sid
                  /\ ret.fn = fn /\ ret.raw = raw,
     suggestions |-> <<>>,
     summary |-> NoSummary,
     index |-> NoOrdinal,
     stale |-> /\ op \in {"getContext", "resolve", "update"}
               /\ sid \in Tracked
               /\ now - contexts[sid].lastActivity > CONTEXT_TIMEOUT]

\* No request: what voice.last holds before any continuation has run.
NoRequest ==
    [n |-> 0, handler |-> "", sid |-> "", fn |-> "", args |-> NoParams,
     resolved |-> <<>>, fetched |-> NoParams, seen |-> 0, before |-> 0]

\* The history variables of the sessions in gone are reset with their contexts.
Forget(gone) ==
    /\ recorded' = [s \in SessionIds |-> IF s \in gone THEN 0 ELSE recorded[s]]
    /\ inserted' = [s \in SessionIds |-> IF s \in gone THEN NoLog ELSE inserted[s]]

Init ==
    /\ contexts = Restrict(<<>>, {})
    /\ now = 0
    /\ timer = [active |-> TRUE, next |-> CleanupEvery]
    /\ ret = [op |-> "new", sid |-> "", fn |-> "", raw |-> NoParams, out |-> NoParams,
              removed |-> {}, created |-> FALSE, again |-> FALSE,
              suggestions |-> <<>>, summary |-> NoSummary, index |-> NoOrdinal, stale |-> FALSE]
    /\ evicted = {}
    /\ recorded = [s \in SessionIds |-> 0]
    /\ inserted = [s \in SessionIds |-> NoLog]
    /\ voice = [pending |-> {}, issued |-> 0, recording |-> [s \in SessionIds |-> 0],
                last |-> NoRequest, result |-> Results(FALSE, <<>>), updates |-> 0,
                lastUpdate |-> [s \in SessionIds |-> NoRequest]]

\* The instants at which the model lets calls arrive: each firing of the timer
\* and one minute before it.
Instants == {t \in 0..MaxTime : t % CleanupEvery \in {0, CleanupEvery - 1}}

\* Time passes to the next instant.  A timer that is due fires first.
Tick ==
    /\ \E t \in Instants : t > now
    /\ ~(timer.active /\ now >= timer.next)
    /\ now' = CHOOSE t \in Instants : t > now /\ \A u \in Instants : u > now => t <= u
    /\ UNCHANGED <<contexts, timer, ret, recorded, inserted, evicted, voice>>

GetContext(sessionId) ==
    /\ contexts' = getContextStore(contexts, sessionId, now)
    /\ ret' = Ret("getContext", sessionId, "", NoParams, NoParams, {})
    /\ UNCHANGED <<now, timer, recorded, inserted, evicted, voice>>

\* Mutant of resolveContextualQuery: the resolution consumes lastResults.
ResolveConsuming(sessionId, functionName, parameters) ==
    LET store == getContextStore(contexts, sessionId, now)
    IN /\ contexts' = [store EXCEPT ![sessionId].lastResults = <<>>]
       /\ ret' = Ret("resolve", sessionId, functionName, parameters,
                     resolvePasses(store[sessionId], functionName, parameters), {})
       /\ UNCHANGED <<now, timer, recorded, inserted, evicted, voice>>

ResolveContextualQuery(sessionId, functionName, parameters) ==
    LET store == getContextStore(contexts, sessionId, now)
    IN /\ contexts' = store
       /\ ret' = Ret("resolve", sessionId, functionName, parameters,
                     resolvePasses(store[sessionId], functionName, parameters), {})
       /\ UNCHANGED <<now, timer, recorded, inserted, evicted, voice>>

\* What updateContext does to the Map, with the history variables of the session.
Recording(sessionId, functionName, parameters, results) ==
    LET store == getContextStore(contexts, sessionId, now)
        seq == recorded[sessionId] + 1
    IN /\ contexts' = [store EXCEPT ![sessionId] =
                          updatedContext(@, functionName, parameters, results, now, seq)]
       /\ recorded' = [recorded EXCEPT ![sessionId] = seq]
       /\ inserted' = [inserted EXCEPT
                          ![sessionId].speakers =
                              @ \o Entered(store[sessionId].mentionedSpeakers,
                                           SpeakerAdds(parameters, results)),
                          ![sessionId].sessions =
                              @ \o Entered(store[sessionId].mentionedSessions,
                                           SessionAdds(parameters, results)),
                          ![sessionId].terms =
                              @ \o Entered(store[sessionId].recentSearchTerms,
                                           TermAdds(parameters, results))]

UpdateContext(sessionId, functionName, parameters, results) ==
    /\ Recording(sessionId, functionName, parameters, results)
    /\ ret' = Ret("update", sessionId, functionName, parameters, parameters, {})
    /\ UNCHANGED <<now, timer, evicted, voice>>

\* Mutant of Expired: twice the timeout is allowed.
ExpiredLate(store, date) ==
    {s \in DOMAIN store : date - store[s].lastActivity > 2 * CONTEXT_TIMEOUT}

\* Mutant of Expired: >= instead of >, a context idle for exactly the timeout goes too.
ExpiredAtTimeout(store, date) ==
    {s \in DOMAIN store : date - store[s].lastActivity >= CONTEXT_TIMEOUT}

Expired(store, date) ==
    {s \in DOMAIN store : date - store[s].lastActivity > CONTEXT_TIMEOUT}

\* The timer callback.
CleanupExpiredContexts ==
    /\ timer.active
    /\ now >= timer.next
    /\ contexts' = Restrict(contexts, Tracked \ Expired(contexts, now))
    /\ timer' = [timer EXCEPT !.next = @ + CleanupEvery]
    /\ ret' = Ret("cleanup", "", "", NoParams, NoParams, Expired(contexts, now))
    /\ Forget(Expired(contexts, now))
    /\ evicted' = evicted \cup Expired(contexts, now)
    /\ UNCHANGED <<now, voice>>

\* Mutant of ClearContext: the whole Map is cleared.
ClearContextAll(sessionId) ==
    /\ contexts' = Restrict(contexts, {})
    /\ ret' = Ret("clear", sessionId, "", NoParams, NoParams, Tracked \cap {sessionId})
    /\ Forget(SessionIds)
    /\ UNCHANGED <<now, timer, evicted, voice>>

ClearContext(sessionId) ==
    /\ contexts' = Restrict(contexts, Tracked \ {sessionId})
    /\ ret' = Ret("clear", sessionId, "", NoParams, NoParams, Tracked \cap {sessionId})
    /\ Forget({sessionId})
    /\ UNCHANGED <<now, timer, evicted, voice>>

\* Mutant of GenerateSuggestions: the context is fetched with getContext.
GenerateSuggestionsTouching(sessionId) ==
    /\ contexts' = getContextStore(contexts, sessionId, now)
    /\ ret' = [Ret("suggest", sessionId, "", NoParams, NoParams, {}) EXCEPT
                  !.suggestions = generateSuggestions(contexts', sessionId)]
    /\ UNCHANGED <<now, timer, recorded, inserted, evicted, voice>>

GenerateSuggestions(sessionId) ==
    /\ ret' = [Ret("suggest", sessionId, "", NoParams, NoParams, {}) EXCEPT
                  !.suggestions = generateSuggestions(contexts, sessionId)]
    /\ UNCHANGED <<contexts, now, timer, recorded, inserted, evicted, voice>>

\* Mutant of GetConversationSummary: the context is fetched with getContext.
GetConversationSummaryTouching(sessionId) ==
    /\ contexts' = getContextStore(contexts, sessionId, now)
    /\ ret' = [Ret("summarize", sessionId, "", NoParams, NoParams, {}) EXCEPT
                  !.summary = getConversationSummary(contexts', sessionId, now)]
    /\ UNCHANGED <<now, timer, recorded, inserted, evicted, voice>>

GetConversationSummary(sessionId) ==
    /\ ret' = [Ret("summarize", sessionId, "", NoParams, NoParams, {}) EXCEPT
                  !.summary = getConversationSummary(contexts, sessionId, now)]
    /\ UNCHANGED <<contexts, now, timer, recorded, inserted, evicted, voice>>

\* extractOrdinalReference called on its own.
ExtractOrdinalReference(text) ==
    /\ ret' = [Ret("ordinal", "", "", Params(NoText, NoText, NoText, text, NoText),
                   Params(NoText, NoText, NoText, text, NoText), {}) EXCEPT
                  !.index = extractOrdinalReference(text)]
    /\ UNCHANGED <<contexts, now, timer, recorded, inserted, evicted, voice>>

\* Mutant of Shutdown: the timer is toggled instead of cleared.
ShutdownToggling ==
    /\ timer' = [timer EXCEPT !.active = ~@]
    /\ contexts' = Restrict(contexts, {})
    /\ ret' = Ret("shutdown", "", "", NoParams, NoParams, Tracked)
    /\ Forget(SessionIds)
    /\ UNCHANGED <<now, evicted, voice>>

Shutdown ==
    /\ timer' = [timer EXCEPT !.active = FALSE]
    /\ contexts' = Restrict(contexts, {})
    /\ ret' = Ret("shutdown", "", "", NoParams, NoParams, Tracked)
    /\ Forget(SessionIds)
    /\ UNCHANGED <<now, evicted, voice>>

----------------------------------------------------------------------------
\* Spec: the life cycle of two sessions under the clock and the sweep.

Jason == <<"Jason">>
Sarah == <<"Sarah">>

TalkAI == Row(<<"Talk", "AI">>, Jason)
MeetSpeaker == Row(<<"Meet", "The Speaker">>, Sarah)

\* What the dispatcher records: operation, resolved parameters, fetch result.
Interactions ==
    { [fn |-> "search_sessions_by_speaker",
       params |-> Params(Jason, NoText, NoText, NoText, NoText),
       results |-> Results(TRUE, <<TalkAI, MeetSpeaker>>)] }

\* What the dispatcher asks to resolve: operation and raw parameters.
Queries ==
    { [fn |-> "get_session_details",
       params |-> Params(NoText, NoText, NoText, <<"second">>, NoText)] }

\* The sessions whose calls reach updateContext in Spec.
Callers == {"s1"}

Next ==
    \/ Tick
    \/ CleanupExpiredContexts
    \/ Shutdown
    \/ \E s \in SessionIds :
          \/ GetContext(s)
          \/ ClearContext(s)
          \/ GenerateSuggestions(s)
          \/ GetConversationSummary(s)
          \/ \E q \in Queries : ResolveContextualQuery(s, q.fn, q.params)
    \/ \E s \in Callers, i \in Interactions :
          /\ recorded[s] < MaxCalls
          /\ UpdateContext(s, i.fn, i.params, i.results)

Spec == Init /\ [][Next]_vars

----------------------------------------------------------------------------
\* SpecLive: the accesses that refresh a context, under time that keeps passing
\* and a timer whose callback runs when it is due (the event loop runs a due
\* setInterval callback).

NextLive ==
    \/ Tick
    \/ CleanupExpiredContexts
    \/ Shutdown
    \/ \E s \in SessionIds : GetContext(s)
    \/ \E s \in Callers :
          \/ \E q \in Queries : ResolveContextualQuery(s, q.fn, q.params)
          \/ \E i \in Interactions :
                /\ recorded[s] < MaxCalls
                /\ UpdateContext(s, i.fn, i.params, i.results)

SpecLive ==
    Init /\ [][NextLive]_vars /\ WF_vars(Tick) /\ WF_vars(CleanupExpiredContexts)

----------------------------------------------------------------------------
\* SpecHist: one session records more interactions than the history keeps.

HistInteractions ==
    { [fn |-> "search_sessions_by_speaker",
       params |-> Params(Jason, NoText, NoText, NoText, NoText),
       results |-> Results(TRUE, <<TalkAI>>)],
      [fn |-> "get_session_details",
       params |-> Params(NoText, NoText, NoText, <<"Talk", "AI">>, NoText),
       results |-> Results(FALSE, <<>>)] }

NextHist ==
    \/ ClearContext("s1")
    \/ GetConversationSummary("s1")
    \/ \E i \in HistInteractions :
          /\ recorded["s1"] < HistCalls
          /\ UpdateContext("s1", i.fn, i.params, i.results)

SpecHist == Init /\ [][NextHist]_vars

----------------------------------------------------------------------------
\* SpecEnt: one session records batches of result rows that overflow the
\* entity sets.  Names are numbered: Speaker(n) is <<"S", d1, d2>>.

NumBatches == 4      \* distinct result batches

Digits == <<"0", "1", "2", "3", "4", "5", "6", "7", "8", "9">>

Numbered(letter, n) == <<letter, Digits[(n \div 10) + 1], Digits[(n % 10) + 1]>>

Batch(b) == [j \in 1..BatchSize |->
                Row(Numbered("T", b * BatchSize + j), Numbered("S", b * BatchSize + j))]

\* A search for the first speaker of the next batch, with a topic and a query
\* of the batch's own.
EntParams(b, withParams) ==
    IF withParams
    THEN Params(Numbered("S", ((b + 1) % NumBatches) * BatchSize + 1),
                Numbered("P", b), Numbered("Q", b), NoText, NoText)
    ELSE NoParams

NextEnt ==
    \E b \in 0..(NumBatches - 1), withParams \in BOOLEAN :
        /\ recorded["s1"] < EntCalls
        /\ UpdateContext("s1", "search_sessions_by_speaker", EntParams(b, withParams),
                         Results(TRUE, Batch(b)))

SpecEnt == Init /\ [][NextEnt]_vars

----------------------------------------------------------------------------
\* SpecResolve: one session records a few interactions and resolves follow-up
\* questions against what they left behind.

Maya == <<"Maya">>

ResInteractions ==
    { [fn |-> "search_sessions_by_speaker",
       params |-> Params(Jason, NoText, NoText, NoText, NoText),
       results |-> Results(TRUE, <<TalkAI, MeetSpeaker, Row(NoText, Maya)>>)],
      [fn |-> "search_sessions_by_speaker",
       params |-> Params(Sarah, NoText, NoText, NoText, NoText),
       results |-> Results(TRUE, <<>>)],
      [fn |-> "search_sessions_by_topic",
       params |-> Params(NoText, <<"Leadership">>, NoText, NoText, NoText),
       results |-> Results(TRUE, <<Row(<<"Keynote">>, NoText)>>)],
      [fn |-> "search_sessions_by_type",
       params |-> Params(NoText, NoText, NoText, NoText, <<"Workshop">>),
       results |-> Results(TRUE, <<Row(<<"Workshop", "AI">>, Maya), TalkAI>>)],
      [fn |-> "get_session_details",
       params |-> Params(NoText, NoText, NoText, <<"Talk", "AI">>, NoText),
       results |-> Results(FALSE, <<>>)],
      [fn |-> "get_current_sessions",
       params |-> NoParams,
       results |-> Results(TRUE, <<Row(<<"Keynote">>, NoText), TalkAI>>)],
      [fn |-> "get_upcoming_sessions",
       params |-> NoParams,
       results |-> Results(TRUE, <<MeetSpeaker, TalkAI>>)] }

Details(session_query) ==
    [fn |-> "get_session_details",
     params |-> Params(NoText, NoText, NoText, session_query, NoText)]

BySpeaker(speaker_name) ==
    [fn |-> "search_sessions_by_speaker",
     params |-> Params(speaker_name, NoText, NoText, NoText, NoText)]

ByTopic(topic) ==
    [fn |-> "search_sessions_by_topic",
     params |-> Params(NoText, topic, NoText, NoText, NoText)]

ResQueries ==
    { Details(<<"tell", "First">>), Details(<<"second">>), Details(<<"third">>),
      Details(<<"the", "Last">>), Details(<<"fifth">>), Details(<<"Talk">>),
      Details(<<"fifth", "that speaker">>), Details(<<"second", "the speaker">>),
      Details(<<"1st", "last">>), Details(<<"related">>),
      BySpeaker(NoText), BySpeaker(<<"That Speaker">>), BySpeaker(<<"that speaker">>),
      ByTopic(<<"similar", "that speaker">>), ByTopic(<<"Similar">>),
      ByTopic(<<"similar">>), ByTopic(<<"same topic">>),
      ByTopic(<<"that speaker", "that session">>) }

NextResolve ==
    \/ \E i \in ResInteractions :
          /\ recorded["s1"] < ResCalls
          /\ UpdateContext("s1", i.fn, i.params, i.results)
    \/ \E q \in ResQueries : ResolveContextualQuery("s1", q.fn, q.params)
    \/ GenerateSuggestions("s1")

SpecResolve == Init /\ [][NextResolve]_vars

----------------------------------------------------------------------------
\* SpecOrdinal: extractOrdinalReference on short texts of ordinal words.

MaxWords == 2        \* words of a text in SpecOrdinal

OrdinalWords ==
    {"first", "second", "third", "fourth", "fifth", "last", "latest", "newest",
     "1st", "2nd", "3rd", "4th", "5th", "First"}

RECURSIVE Texts(_)
\* The texts of at most n words.
Texts(n) ==
    IF n = 0 THEN {<<>>}
    ELSE Texts(n - 1) \cup {Append(t, w) : t \in Texts(n - 1), w \in OrdinalWords}

NextOrdinal == \E text \in Texts(MaxWords) : ExtractOrdinalReference(text)

SpecOrdinal == Init /\ [][NextOrdinal]_vars

----------------------------------------------------------------------------
\* SpecDispatch: the VoiceHandler. A handler runs up to `await executeFunction`
\* in one step and its continuation in another; the handlers of other events
\* and requests run in between.

MaxRequests == 3     \* requests the VoiceHandler takes in SpecDispatch

\* What executeFunction can return: rows, or the failure object.
FetchResults == {Results(TRUE, <<TalkAI, MeetSpeaker>>), Results(FALSE, <<>>)}

\* The function calls that arrive: operation and arguments.
Requests == {BySpeaker(Jason), Details(<<"second">>)}

Request(handler, sid, fn, args, resolved, fetched) ==
    [n |-> voice.issued + 1, handler |-> handler, sid |-> sid, fn |-> fn, args |-> args,
     resolved |-> resolved, fetched |-> fetched,
     seen |-> recorded[sid], before |-> voice.recording[sid]]

\* executeFunctionCall up to the await: the arguments are resolved and the fetch
\* is started with the resolved parameters.
ExecuteFunctionCall(callId, name, args) ==
    LET store == getContextStore(contexts, callId, now)
        contextualParams == resolvePasses(store[callId], name, args)
    IN /\ voice.issued < MaxRequests
       /\ contexts' = store
       /\ ret' = Ret("resolve", callId, name, args, contextualParams, {})
       /\ voice' = [voice EXCEPT
                       !.pending = @ \cup {Request("executeFunctionCall", callId, name, args,
                                                   <<contextualParams>>, contextualParams)},
                       !.issued = @ + 1,
                       !.recording[callId] = @ + 1]
       /\ UNCHANGED <<now, timer, recorded, inserted, evicted>>

\* executeFunctionCall after the await: the call is recorded.
ExecuteFunctionCallResume(request, result) ==
    /\ request \in voice.pending
    /\ request.handler = "executeFunctionCall"
    /\ Recording(request.sid, request.fn, request.fetched, result)
    /\ ret' = Ret("update", request.sid, request.fn, request.fetched, request.fetched, {})
    /\ voice' = [voice EXCEPT !.pending = @ \ {request}, !.last = request,
                              !.result = result, !.updates = 1,
                              !.lastUpdate[request.sid] = request]
    /\ UNCHANGED <<now, timer, evicted>>

\* handleTextQuery with a function_name, up to the await.
HandleTextQuery(sessionId, function_name, parameters) ==
    LET store == getContextStore(contexts, sessionId, now)
        contextualParams == resolvePasses(store[sessionId], function_name, parameters)
    IN /\ voice.issued < MaxRequests
       /\ contexts' = store
       /\ ret' = Ret("resolve", sessionId, function_name, parameters, contextualParams, {})
       /\ voice' = [voice EXCEPT
                       !.pending = @ \cup {Request("handleTextQuery", sessionId, function_name,
                                                   parameters, <<contextualParams>>,
                                                   contextualParams)},
                       !.issued = @ + 1,
                       !.recording[sessionId] = @ + 1]
       /\ UNCHANGED <<now, timer, recorded, inserted, evicted>>

\* handleTextQuery after the await: the call is recorded, then the summary and
\* the suggestions are read for the reply.
HandleTextQueryResume(request, result) ==
    /\ request \in voice.pending
    /\ request.handler = "handleTextQuery"
    /\ Recording(request.sid, request.fn, request.fetched, result)
    /\ ret' = [Ret("update", request.sid, request.fn, request.fetched, request.fetched, {})
                  EXCEPT !.summary = getConversationSummary(contexts', request.sid, now),
                         !.suggestions = generateSuggestions(contexts', request.sid)]
    /\ voice' = [voice EXCEPT !.pending = @ \ {request}, !.last = request,
                              !.result = result, !.updates = 1,
                              !.lastUpdate[request.sid] = request]
    /\ UNCHANGED <<now, timer, evicted>>

\* handleFunctionCallWebhook up to the await: the fetch is started with the
\* arguments as they came; the ContextManager is not called.
HandleFunctionCallWebhook(call_id, function_name, args) ==
    /\ voice.issued < MaxRequests
    /\ voice' = [voice EXCEPT
                    !.pending = @ \cup {Request("handleFunctionCallWebhook", call_id,
                                                function_name, args, <<>>, args)},
                    !.issued = @ + 1]
    /\ UNCHANGED <<contexts, now, timer, ret, recorded, inserted, evicted>>

\* handleFunctionCallWebhook after the await: the result is sent back.
HandleFunctionCallWebhookResume(request, result) ==
    /\ request \in voice.pending
    /\ request.handler = "handleFunctionCallWebhook"
    /\ voice' = [voice EXCEPT !.pending = @ \ {request}, !.last = request,
                              !.result = result, !.updates = 0]
    /\ UNCHANGED <<contexts, now, timer, ret, recorded, inserted, evicted>>

NextDispatch ==
    \/ \E q \in Requests :
          \/ ExecuteFunctionCall("s1", q.fn, q.params)
          \/ HandleTextQuery("s2", q.fn, q.params)
          \/ HandleFunctionCallWebhook("s1", q.fn, q.params)
    \/ \E request \in voice.pending, result \in FetchResults :
          \/ ExecuteFunctionCallResume(request, result)
          \/ HandleTextQueryResume(request, result)
          \/ HandleFunctionCallWebhookResume(request, result)

SpecDispatch == Init /\ [][NextDispatch]_vars

----------------------------------------------------------------------------
\* Claims.

Min(a, b) == IF a < b THEN a ELSE b

ContextualPhrases == SpeakerPhrases \cup SessionPhrases \cup TopicPhrases

\* C1 (SpecHist): after any number of updateContext calls on a session the
\* history holds min(calls, 10) records, and they are the most recent calls in
\* the order they were made.
C1_HistoryLastTen ==
    \A s \in Tracked :
        LET h == contexts[s].conversationHistory
        IN /\ Len(h) = Min(recorded[s], HistoryLimit)
           /\ \A i \in 1..Len(h) : h[i].seq = recorded[s] - Len(h) + i

\* More calls than the history keeps, two records already dropped.
C1_Witness ==
    /\ "s1" \in Tracked
    /\ recorded["s1"] >= HistoryLimit + 2
    /\ Len(contexts["s1"].conversationHistory) = HistoryLimit

\* C2 (SpecEnt): after every updateContext call mentionedSpeakers has at most
\* 20 entries, mentionedSessions at most 15 and recentSearchTerms at most 10.
C2_SetsCapped ==
    \A s \in Tracked :
        /\ Len(contexts[s].mentionedSpeakers) <= MaxSpeakers
        /\ Len(contexts[s].mentionedSessions) <= MaxSessions
        /\ Len(contexts[s].recentSearchTerms) <= MaxSearchTerms

\* More values have entered each set than it may hold, and each is full.
C2_Witness ==
    /\ "s1" \in Tracked
    /\ Len(inserted["s1"].speakers) > MaxSpeakers
    /\ Len(inserted["s1"].sessions) > MaxSessions
    /\ Len(inserted["s1"].terms) > MaxSearchTerms
    /\ Len(contexts["s1"].mentionedSpeakers) = MaxSpeakers
    /\ Len(contexts["s1"].mentionedSessions) = MaxSessions
    /\ Len(contexts["s1"].recentSearchTerms) = MaxSearchTerms

\* C3 (SpecEnt): each entity set holds the values that entered it most recently,
\* in the order they entered: an overflow drops the oldest-inserted entries.
\* (Adding a value the set already holds inserts nothing.)
C3_OldestDropped ==
    \A s \in Tracked :
        /\ contexts[s].mentionedSpeakers = SliceLast(inserted[s].speakers, MaxSpeakers)
        /\ contexts[s].mentionedSessions = SliceLast(inserted[s].sessions, MaxSessions)
        /\ contexts[s].recentSearchTerms = SliceLast(inserted[s].terms, MaxSearchTerms)

\* A speaker was dropped by an overflow and has entered the set again since.
C3_Witness ==
    /\ "s1" \in Tracked
    /\ LET log == inserted["s1"].speakers
       IN /\ Len(log) > MaxSpeakers
          /\ \E i, j \in DOMAIN log : i < j /\ log[i] = log[j]

\* C4 (Spec): one run of the sweep removes exactly the contexts whose
\* lastActivity is more than 10 minutes before the sweep time and leaves every
\* other context as it was.  (Only the sweep re-arms the timer.)
C4_SweepRemovesExpired ==
    [][timer'.next # timer.next =>
          /\ DOMAIN contexts' =
                {s \in Tracked : ~(contexts[s].lastActivity + CONTEXT_TIMEOUT < now)}
          /\ \A s \in DOMAIN contexts' : contexts'[s] = contexts[s]]_vars

\* A sweep has removed one context and retained another.
C4_Witness ==
    /\ ret.op = "cleanup"
    /\ ret.removed # {}
    /\ Tracked # {}

\* C5 (Spec): getContext and resolveContextualQuery on a session id that is not
\* tracked work on a new, empty context, and the resolution returns the raw
\* parameters: nothing of an earlier conversation under that id is left.
C5_UntrackedStartsEmpty ==
    [][(ret'.op \in {"getContext", "resolve"} /\ now' = now /\ ret'.sid \notin Tracked) =>
          LET c == contexts'[ret'.sid]
          IN /\ c.conversationHistory = <<>>
             /\ c.lastQuery = NoQuery
             /\ c.lastResults = <<>>
             /\ c.currentTopic = NoTopic
             /\ c.mentionedSpeakers = <<>>
             /\ c.mentionedSessions = <<>>
             /\ c.recentSearchTerms = <<>>
             /\ c.createdAt = now
             /\ (ret'.op = "resolve" => ret'.out = ret'.raw)]_vars

\* A resolution has just created the context of a session the sweep had evicted.
C5_Witness ==
    /\ ret.op = "resolve"
    /\ ret.created
    /\ ret.sid \in evicted

\* C6 as claimed (Spec): resolveContextualQuery leaves the store as it was.
C6_ResolveReadOnly ==
    [][(ret'.op = "resolve" /\ now' = now) => contexts' = contexts]_vars

\* C6 as amended (Spec): resolveContextualQuery changes nothing but the
\* lastActivity of the session it resolves, which becomes the current time; if
\* the session was not tracked, its new empty context is added.
C6_ResolveOnlyRefreshes ==
    [][(ret'.op = "resolve" /\ now' = now) =>
          LET s == ret'.sid
              before == IF s \in Tracked THEN contexts[s] ELSE createNewContext(s, now)
          IN /\ DOMAIN contexts' = Tracked \cup {s}
             /\ \A t \in Tracked \ {s} : contexts'[t] = contexts[t]
             /\ contexts'[s] = [before EXCEPT !.lastActivity = now]]_vars

\* A resolution on a context with recorded results has refreshed lastActivity.
C6_Witness ==
    /\ ret.op = "resolve"
    /\ ~ret.created
    /\ contexts[ret.sid].lastResults # <<>>
    /\ contexts[ret.sid].lastActivity = now
    /\ contexts[ret.sid].lastActivity > contexts[ret.sid].lastQuery.timestamp

\* C7 (SpecResolve): two resolutions in a row with the same session, operation and raw
\* parameters return equal parameters.
C7_ResolveTwiceEqual ==
    [][(ret.op = "resolve" /\ ret'.op = "resolve" /\ ret'.sid = ret.sid
            /\ ret'.fn = ret.fn /\ ret'.raw = ret.raw) => ret'.out = ret.out]_vars

\* A resolution that changed its parameters has been repeated.
C7_Witness ==
    /\ ret.op = "resolve"
    /\ ret.again
    /\ ret.out # ret.raw

\* The context a resolution worked on: the call leaves every field the passes read.
Resolved == contexts[ret.sid]

\* C8 (SpecResolve): for get_session_details with recorded results, an ordinal
\* word whose index is within lastResults makes session_query the title of the
\* selected row (its speaker name if it has no title): first is row 1, second
\* row 2, last the final row.  Stated for titles without a contextual phrase.
C8_OrdinalSelectsTitle ==
    (ret.op = "resolve" /\ ret.fn = "get_session_details") =>
        LET rows == Resolved.lastResults
            ord == extractOrdinalReference(ret.raw.session_query)
            at == IF ord = -1 THEN Len(rows) ELSE ord + 1
        IN (ord # NoOrdinal /\ at \in DOMAIN rows
                /\ ~includesAny(toLowerCase(TitleOrSpeaker(rows[at])), ContextualPhrases))
              => ret.out.session_query = TitleOrSpeaker(rows[at])

\* An ordinal word at or past the end of lastResults.
OutOfRange ==
    /\ ret.op = "resolve"
    /\ ret.fn = "get_session_details"
    /\ extractOrdinalReference(ret.raw.session_query) >= Len(Resolved.lastResults)

\* C9 as claimed (SpecResolve): an ordinal at or past the end of lastResults
\* leaves session_query unchanged.
C9_OutOfRangeUnchanged ==
    OutOfRange => ret.out.session_query = ret.raw.session_query

\* C9 as amended (SpecResolve): an ordinal at or past the end of lastResults is
\* ignored by the ordinal pass; session_query is returned unchanged unless it
\* holds a contextual phrase, and then as the contextual pass rewrites it.
C9_OutOfRangeIgnored ==
    OutOfRange =>
        /\ ret.out.session_query = replaceContextualTerms(Resolved, ret.raw.session_query)
        /\ (~includesAny(toLowerCase(ret.raw.session_query), ContextualPhrases)
               => ret.out.session_query = ret.raw.session_query)

\* "fifth" with three recorded results.
C9_Witness ==
    /\ OutOfRange
    /\ Len(Resolved.lastResults) = 3
    /\ ret.raw.session_query = <<"fifth">>
    /\ ret.out.session_query = <<"fifth">>

\* The string a speaker phrase replacement makes of a parameter.
SpeakerReplaced(k) ==
    replaceAllCI(ret.raw[k], SpeakerPhrases,
                 Resolved.mentionedSpeakers[Len(Resolved.mentionedSpeakers)])

HasSpeakerPhrase(k) == includesAny(toLowerCase(ret.raw[k]), SpeakerPhrases)

\* C10 as claimed (SpecResolve): with X the most recently inserted speaker,
\* every parameter that holds "that speaker" or "the speaker" is returned with
\* each occurrence replaced by X.
C10_SpeakerPhraseReplaced ==
    (ret.op = "resolve" /\ Resolved.mentionedSpeakers # <<>>) =>
        \A k \in ParamKeys : HasSpeakerPhrase(k) => ret.out[k] = SpeakerReplaced(k)

\* The ordinal pass has replaced session_query before the phrases are looked for.
OrdinalReplaced ==
    resolveFollowUpQueries(Resolved, ret.fn, ret.raw).session_query # ret.raw.session_query

\* The continuity pass overwrites the topic after the phrases are replaced.
TopicOverwritten ==
    Resolved.currentTopic # NoTopic /\ includesAny(SpeakerReplaced("topic"), RelativeWords)

\* C10 as amended (SpecResolve): the same, except for a session_query the
\* ordinal pass has replaced and a topic the continuity pass overwrites.
C10_SpeakerPhraseReplacedUnlessOverridden ==
    (ret.op = "resolve" /\ Resolved.mentionedSpeakers # <<>>) =>
        \A k \in ParamKeys :
            (HasSpeakerPhrase(k)
                /\ ~(k = "session_query" /\ OrdinalReplaced)
                /\ ~(k = "topic" /\ TopicOverwritten))
              => ret.out[k] = SpeakerReplaced(k)

\* speaker_name "That Speaker" has become the newest of several speakers.
C10_Witness ==
    /\ ret.op = "resolve"
    /\ Len(Resolved.mentionedSpeakers) >= 2
    /\ ret.raw.speaker_name = <<"That Speaker">>
    /\ ret.out.speaker_name = Resolved.mentionedSpeakers[Len(Resolved.mentionedSpeakers)]

\* C11 (SpecResolve): when the interaction recorded last on a session is a
\* search_sessions_by_speaker for speaker X, a search_sessions_by_speaker call
\* with speaker_name "that speaker" is resolved to X (in lower case, as the
\* context stores it), whatever rows the search returned and whatever speakers
\* were mentioned before.
C11_ThatSpeakerIsSearched ==
    (/\ ret.op = "resolve"
     /\ ret.fn = "search_sessions_by_speaker"
     /\ toLowerCase(ret.raw.speaker_name) = <<"that speaker">>
     /\ Resolved.lastQuery.functionName = "search_sessions_by_speaker"
     /\ Resolved.lastQuery.parameters.speaker_name # NoText)
        => ret.out.speaker_name = toLowerCase(Resolved.lastQuery.parameters.speaker_name)

\* The phrase families of a text, and whether the context has a substitute for each.
HasFamily(text, phrases) == includesAny(toLowerCase(text), phrases)

SpeakerSourceAbsent(context) == context.mentionedSpeakers = <<>>
SessionSourceAbsent(context) == context.mentionedSessions = <<>>
TopicSourceAbsent(context) ==
    context.currentTopic = NoTopic \/ Head(context.currentTopic) = "speaker: "

\* The text has a contextual phrase and none of its phrases has a substitute.
EverySourceAbsent(context, text) ==
    /\ HasFamily(text, ContextualPhrases)
    /\ HasFamily(text, SpeakerPhrases) => SpeakerSourceAbsent(context)
    /\ HasFamily(text, SessionPhrases) => SessionSourceAbsent(context)
    /\ HasFamily(text, TopicPhrases) => TopicSourceAbsent(context)

\* C12 as claimed (SpecResolve): a parameter whose contextual phrases all lack
\* a substitution source is returned unmodified.
C12_AbsentSourceUnmodified ==
    ret.op = "resolve" =>
        \A k \in ParamKeys :
            EverySourceAbsent(Resolved, ret.raw[k]) => ret.out[k] = ret.raw[k]

\* The continuity pass overwrites a topic that holds a relative word.
TopicContinued ==
    Resolved.currentTopic # NoTopic /\ includesAny(ret.raw.topic, RelativeWords)

\* C12 as amended (SpecResolve): a parameter whose contextual phrases all lack a
\* substitution source is returned unmodified, unless it is a session_query the
\* ordinal pass has replaced or a topic the continuity pass overwrites.
C12_AbsentSourceLeftByPhrasePass ==
    ret.op = "resolve" =>
        \A k \in ParamKeys :
            (EverySourceAbsent(Resolved, ret.raw[k])
                /\ ~(k = "session_query" /\ OrdinalReplaced)
                /\ ~(k = "topic" /\ TopicContinued))
              => ret.out[k] = ret.raw[k]

\* "that speaker" has been resolved on a context that has a topic and recorded
\* sessions but no speaker, and has come back as it was.
C12_Witness ==
    /\ ret.op = "resolve"
    /\ Resolved.mentionedSpeakers = <<>>
    /\ Resolved.mentionedSessions # <<>>
    /\ Resolved.currentTopic # NoTopic
    /\ ret.raw.speaker_name = <<"that speaker">>
    /\ ret.out.speaker_name = <<"that speaker">>

\* currentTopic without the prefix updateCurrentTopic gave it.
StripPrefix(topic) == IF Head(topic) \in {"speaker: ", "type: "} THEN Tail(topic) ELSE topic

\* C13 (SpecResolve): with currentTopic set, a topic parameter that contains
\* "similar", "related" or "like this" is returned as currentTopic without its
\* "speaker: " or "type: " prefix, and the continuity pass leaves every other
\* key as the two passes before it made it.
C13_TopicContinuity ==
    (ret.op = "resolve" /\ Resolved.currentTopic # NoTopic) =>
        /\ includesAny(ret.raw.topic, RelativeWords)
               => ret.out.topic = StripPrefix(Resolved.currentTopic)
        /\ \A k \in ParamKeys \ {"topic"} :
               ret.out[k] = resolveContextualReferences(Resolved,
                                resolveFollowUpQueries(Resolved, ret.fn, ret.raw))[k]

\* "similar" under topic has become the speaker of a "speaker: " topic.
C13_Witness ==
    /\ ret.op = "resolve"
    /\ Head(Resolved.currentTopic) = "speaker: "
    /\ ret.raw.topic = <<"similar">>
    /\ ret.out.topic = Tail(Resolved.currentTopic)

\* "related" under session_query has been left alone although a topic is set.
C13_OtherKeyWitness ==
    /\ ret.op = "resolve"
    /\ Resolved.currentTopic # NoTopic
    /\ ret.raw.session_query = <<"related">>
    /\ ret.out.session_query = <<"related">>

\* C14 (SpecResolve): updateContext sets currentTopic by the fixed mapping of
\* the operation name (topic search: the lower-cased topic; speaker search:
\* "speaker: " and the lower-cased name; type search: "type: " and the
\* lower-cased type; current and upcoming sessions: their constants) and
\* leaves it as it was for every other operation name.
C14_TopicMapping ==
    [][ret'.op = "update" =>
          LET fn == ret'.fn
              p == ret'.raw
              old == IF ret'.sid \in Tracked THEN contexts[ret'.sid].currentTopic ELSE NoTopic
              new == contexts'[ret'.sid].currentTopic
          IN /\ (fn = "search_sessions_by_topic" /\ p.topic # NoText)
                    => new = toLowerCase(p.topic)
             /\ (fn = "search_sessions_by_speaker" /\ p.speaker_name # NoText)
                    => new = <<"speaker: ">> \o toLowerCase(p.speaker_name)
             /\ (fn = "search_sessions_by_type" /\ p.session_type # NoText)
                    => new = <<"type: ">> \o toLowerCase(p.session_type)
             /\ fn = "get_current_sessions" => new = <<"current sessions">>
             /\ fn = "get_upcoming_sessions" => new = <<"upcoming sessions">>
             /\ fn \notin {"search_sessions_by_topic", "search_sessions_by_speaker",
                           "search_sessions_by_type", "get_current_sessions",
                           "get_upcoming_sessions"}
                    => new = old]_vars

\* get_session_details has been recorded on a context whose topic came from a
\* type search, and the topic is still there.
C14_Witness ==
    /\ ret.op = "update"
    /\ ret.fn = "get_session_details"
    /\ Resolved.currentTopic = <<"type: ", "workshop">>

\* The prompts generateSuggestions can make for a context, in generation order.
AllPrompts(context) ==
    (IF Len(context.lastResults) > 1 THEN FollowUpPrompts ELSE <<>>)
        \o (IF context.currentTopic # NoTopic THEN TopicPrompts ELSE <<>>)
        \o (IF context.mentionedSpeakers # <<>>
            THEN <<SpeakerPrompt(context.mentionedSpeakers[Len(context.mentionedSpeakers)])>>
            ELSE <<>>)

\* C15 (SpecResolve): generateSuggestions returns the first three (or all, if
\* fewer) of the prompts in generation order: follow-up prompts when lastResults
\* has more than one row, topic prompts when currentTopic is set, the speaker
\* prompt when a speaker is mentioned; for an untracked session it returns
\* the empty list.
C15_SuggestionsPrefix ==
    ret.op = "suggest" =>
        IF ret.sid \notin Tracked THEN ret.suggestions = <<>>
        ELSE /\ Len(ret.suggestions) = Min(MaxSuggestions, Len(AllPrompts(Resolved)))
             /\ ret.suggestions = SubSeq(AllPrompts(Resolved), 1, Len(ret.suggestions))

\* Five prompts were due and the first three were returned.
C15_Witness ==
    /\ ret.op = "suggest"
    /\ ret.sid \in Tracked
    /\ Len(AllPrompts(Resolved)) = 5
    /\ ret.suggestions = FollowUpPrompts \o <<TopicPrompts[1]>>

\* Suggestions were asked for a session that is not tracked.
C15_UntrackedWitness ==
    /\ ret.op = "suggest"
    /\ ret.sid \notin Tracked
    /\ ret.suggestions = <<>>

\* C16 as claimed (SpecHist): getConversationSummary on a session id that has
\* been seen (it is tracked, or its context has just been cleared) returns a
\* summary, not null, whose interactionCount is min(calls recorded, 10).
C16_SeenHasSummary ==
    [][(/\ ret'.op = "summarize"
        /\ \/ ret'.sid \in Tracked
           \/ ret.op = "clear" /\ ret.sid = ret'.sid /\ ret.removed # {})
          => /\ ret'.summary # NoSummary
             /\ ret'.summary.interactionCount = Min(recorded[ret'.sid], HistoryLimit)]_vars

\* C16 as amended (SpecHist): getConversationSummary returns null for a session
\* id that is not tracked (never seen, or cleared since), and for a tracked one
\* a summary whose interactionCount is min(updateContext calls since the
\* context was created, 10).
C16_SummaryOfTracked ==
    ret.op = "summarize" =>
        IF ret.sid \notin Tracked THEN ret.summary = NoSummary
        ELSE /\ ret.summary # NoSummary
             /\ ret.summary.sessionId = ret.sid
             /\ ret.summary.interactionCount = Min(recorded[ret.sid], HistoryLimit)

\* A summary after more calls than the history keeps.
C16_Witness ==
    /\ ret.op = "summarize"
    /\ ret.sid \in Tracked
    /\ recorded[ret.sid] > HistoryLimit
    /\ ret.summary.interactionCount = HistoryLimit

\* A summary asked for a session whose context was cleared after it had recorded calls.
C16_ClearedWitness ==
    /\ ret.op = "summarize"
    /\ ret.sid \notin Tracked
    /\ ret.summary = NoSummary

\* C17 (Spec): generateSuggestions and getConversationSummary change no context,
\* create none and leave the timer alone: lastActivity is not refreshed, so a
\* session read this way is evicted when it would have been.
C17_ReadsChangeNothing ==
    [][(ret'.op \in {"suggest", "summarize"} /\ now' = now) =>
          (contexts' = contexts /\ timer' = timer)]_vars

\* A context idle for the whole timeout has been read and is still as idle.
C17_Witness ==
    /\ ret.op \in {"suggest", "summarize"}
    /\ ret.sid \in Tracked
    /\ contexts[ret.sid].lastActivity + CONTEXT_TIMEOUT <= now

\* C18 (Spec): shutdown, in any state, leaves the timer stopped and no context
\* tracked; a shutdown that follows a shutdown changes neither; and a stopped
\* timer stays stopped, so the sweep does not run again.
C18_ShutdownIdempotent ==
    [][/\ (ret'.op = "shutdown" /\ now' = now) =>
              /\ ~timer'.active
              /\ DOMAIN contexts' = {}
              /\ ret.op = "shutdown" => (contexts' = contexts /\ timer' = timer)
       /\ ~timer.active => (~timer'.active /\ ret'.op # "cleanup")]_vars

\* shutdown has been called on a manager that was already shut down.
C18_Witness ==
    /\ ret.op = "shutdown"
    /\ ret.again
    /\ ~timer.active
    /\ Tracked = {}

\* C19 (Spec): lastActivity of a context never decreases from one call to the
\* next and is never earlier than its createdAt (the clock does not go back).
C19_LastActivityMonotonic ==
    [][\A s \in DOMAIN contexts' :
          /\ contexts'[s].lastActivity >= contexts'[s].createdAt
          /\ s \in Tracked => contexts'[s].lastActivity >= contexts[s].lastActivity]_vars

\* A context created earlier has just been accessed again, later.
C19_Witness ==
    /\ ret.op \in {"getContext", "resolve", "update"}
    /\ ~ret.created
    /\ contexts[ret.sid].lastActivity = now
    /\ contexts[ret.sid].createdAt < now

\* The last time the timer fires within the model's clock.
LastSweepTime == (MaxTime \div CleanupEvery) * CleanupEvery

\* C20 (SpecLive): while the timer is running, a context that is not accessed
\* again is eventually removed, and no context survives a sweep that runs more
\* than 10 minutes after its last access.  (Stated for last accesses early
\* enough for such a sweep to fall within the model's clock.)
C20_IdleEventuallyEvicted ==
    /\ [](timer.active =>
             \A s \in Tracked :
                 contexts[s].lastActivity + CONTEXT_TIMEOUT >= timer.next - CleanupEvery)
    /\ \A s \in SessionIds :
          \A a \in {t \in Instants : t + CONTEXT_TIMEOUT < LastSweepTime} :
              (s \in Tracked /\ contexts[s].lastActivity = a)
                  ~> (s \notin Tracked \/ contexts[s].lastActivity # a \/ ~timer.active)

\* One sweep has removed the contexts of both sessions.
C20_Witness ==
    /\ ret.op = "cleanup"
    /\ ret.removed = SessionIds
    /\ timer.active

\* The index each table word stands for.
IndexOf(word) ==
    CASE word \in {"first", "1st"} -> 0
      [] word \in {"second", "2nd"} -> 1
      [] word \in {"third", "3rd"} -> 2
      [] word \in {"fourth", "4th"} -> 3
      [] word \in {"fifth", "5th"} -> 4
      [] word \in {"last", "latest", "newest"} -> -1

\* The index decided by the first word of an order that the text contains.
Decided(text, order) ==
    LET found == {i \in DOMAIN order : \E p \in DOMAIN text : LowerToken(text[p]) = order[i]}
    IN IF found = {} THEN NoOrdinal
       ELSE IndexOf(order[CHOOSE i \in found : \A j \in found : i <= j])

\* The order of the claim: each word next to its numeral, the "last" words at the end.
ClaimedOrder ==
    <<"first", "1st", "second", "2nd", "third", "3rd", "fourth", "4th", "fifth", "5th",
      "last", "latest", "newest">>

\* The order in which the table is written.
WrittenOrder ==
    <<"first", "second", "third", "fourth", "fifth", "last", "latest", "newest",
      "1st", "2nd", "3rd", "4th", "5th">>

\* C22 as claimed (SpecOrdinal): the words are tested in the order first/1st,
\* second/2nd, ..., fifth/5th, last/latest/newest and the first one found
\* anywhere in the text decides the index.
C22_ClaimedOrderDecides ==
    ret.op = "ordinal" => ret.index = Decided(ret.raw.session_query, ClaimedOrder)

\* C22 as amended (SpecOrdinal): the words are tested in the order first,
\* second, third, fourth, fifth, last, latest, newest, 1st, 2nd, 3rd, 4th, 5th,
\* and the first one found anywhere in the text decides the index, wherever
\* the words stand in the text.
C22_WrittenOrderDecides ==
    ret.op = "ordinal" => ret.index = Decided(ret.raw.session_query, WrittenOrder)

\* "1st last" has been given the index of "last".
C22_Witness ==
    /\ ret.op = "ordinal"
    /\ ret.raw.session_query = <<"1st", "last">>
    /\ ret.index = -1

\* A text with every phrase family replaced that has a substitute: the speaker
\* phrases, then the session phrases, then the topic phrases.
EveryFamilyReplaced(context, text) ==
    LET t1 == IF SpeakerSourceAbsent(context) THEN text
              ELSE replaceAllCI(text, SpeakerPhrases,
                       context.mentionedSpeakers[Len(context.mentionedSpeakers)])
        t2 == IF SessionSourceAbsent(context) THEN t1
              ELSE replaceAllCI(t1, SessionPhrases,
                       context.mentionedSessions[Len(context.mentionedSessions)])
    IN IF TopicSourceAbsent(context) THEN t2
       ELSE replaceAllCI(t2, TopicPhrases, StripPrefix(context.currentTopic))

\* C23 (SpecResolve): in every string parameter each phrase family that occurs
\* and has a substitute is replaced, one replacement not preventing another
\* (a session_query the ordinal pass replaced and a topic the continuity pass
\* overwrites set aside).
C23_EveryFamilyReplaced ==
    ret.op = "resolve" =>
        \A k \in ParamKeys :
            (~(k = "session_query" /\ OrdinalReplaced) /\ ~(k = "topic" /\ TopicContinued))
              => ret.out[k] = EveryFamilyReplaced(Resolved, ret.raw[k])

\* C24 (SpecResolve): search_sessions_by_speaker without a speaker_name gets the
\* speaker of the first lastResults row that has one; with no such row (or no
\* rows) the parameters come back without a speaker_name.
C24_SpeakerFromResults ==
    (ret.op = "resolve" /\ ret.fn = "search_sessions_by_speaker"
         /\ ret.raw.speaker_name = NoText) =>
        LET rows == Resolved.lastResults
            named == {i \in DOMAIN rows : rows[i].speaker # NoText}
        IN IF named = {} THEN ret.out.speaker_name = NoText
           ELSE ret.out.speaker_name = rows[CHOOSE i \in named : \A j \in named : i <= j].speaker

\* The first row has no speaker and the speaker of the second row was taken.
C24_Witness ==
    /\ ret.op = "resolve"
    /\ ret.fn = "search_sessions_by_speaker"
    /\ ret.raw.speaker_name = NoText
    /\ Len(Resolved.lastResults) = 2
    /\ Resolved.lastResults[1].speaker = NoText
    /\ ret.out.speaker_name = Jason

\* Rows without a speaker only: nothing was filled in.
C24_NoSpeakerWitness ==
    /\ ret.op = "resolve"
    /\ ret.fn = "search_sessions_by_speaker"
    /\ ret.raw.speaker_name = NoText
    /\ Resolved.lastResults # <<>>
    /\ ret.out.speaker_name = NoText

\* What one call may add to a set: nothing but vals enters, and all of old and
\* vals is there afterwards unless that is more than the cap, when the set is full.
AddedOnly(new, old, vals, cap) ==
    /\ Range(new) \subseteq Range(old) \cup vals
    /\ IF Cardinality(Range(old) \cup vals) <= cap
       THEN Range(new) = Range(old) \cup vals
       ELSE Len(new) = cap

\* C25 (SpecEnt): updateContext adds to mentionedSpeakers only the lower-cased
\* speaker_name parameter and the lower-cased speaker names of the result rows,
\* to mentionedSessions only the lower-cased titles of the rows, and to
\* recentSearchTerms only the lower-cased speaker_name, topic and query
\* parameters; all of them are in their set afterwards unless the cap is exceeded.
C25_OnlyNamedValuesAdded ==
    [][ret'.op = "update" =>
          LET s == ret'.sid
              old == IF s \in Tracked THEN contexts[s] ELSE createNewContext(s, now)
              new == contexts'[s]
              p == ret'.raw
              rows == new.lastResults
              speakers ==
                  {toLowerCase(p[k]) : k \in {k \in {"speaker_name"} : p[k] # NoText}}
                      \cup {toLowerCase(rows[i].speaker) :
                               i \in {j \in DOMAIN rows : rows[j].speaker # NoText}}
              sessions ==
                  {toLowerCase(rows[i].title) :
                       i \in {j \in DOMAIN rows : rows[j].title # NoText}}
              terms ==
                  {toLowerCase(p[k]) :
                       k \in {k \in {"speaker_name", "topic", "query"} : p[k] # NoText}}
          IN /\ AddedOnly(new.mentionedSpeakers, old.mentionedSpeakers, speakers, MaxSpeakers)
             /\ AddedOnly(new.mentionedSessions, old.mentionedSessions, sessions, MaxSessions)
             /\ AddedOnly(new.recentSearchTerms, old.recentSearchTerms, terms,
                          MaxSearchTerms)]_vars

\* A call with all three parameters on sets that are not yet full: its values
\* are in the sets in lower case.
C25_Witness ==
    /\ ret.op = "update"
    /\ ret.raw.speaker_name # NoText
    /\ ret.raw.topic # NoText
    /\ ret.raw.query # NoText
    /\ recorded[ret.sid] = 2
    /\ toLowerCase(ret.raw.speaker_name) \in Range(Resolved.mentionedSpeakers)
    /\ toLowerCase(ret.raw.topic) \in Range(Resolved.recentSearchTerms)
    /\ Len(Resolved.mentionedSpeakers) < MaxSpeakers
    /\ Len(Resolved.mentionedSessions) = 2 * BatchSize

\* C27 (Spec): getContext, resolveContextualQuery, updateContext and
\* clearContext on one session leave every other session as it was, tracked or
\* not and field by field, and what resolveContextualQuery returns is computed
\* from the context of its own session and the raw parameters alone.
C27_SessionsIsolated ==
    [][(ret'.op \in {"getContext", "resolve", "update", "clear"} /\ ret' # ret) =>
          /\ \A b \in SessionIds \ {ret'.sid} :
                /\ b \in DOMAIN contexts' <=> b \in Tracked
                /\ b \in Tracked => contexts'[b] = contexts[b]
          /\ ret'.op = "resolve" =>
                ret'.out = resolvePasses(IF ret'.sid \in Tracked THEN contexts[ret'.sid]
                                         ELSE createNewContext(ret'.sid, now),
                                         ret'.fn, ret'.raw)]_vars

\* The same query is resolved for s2, which has no results, while s1 has some:
\* it comes back as it was.
C27_Witness ==
    /\ ret.op = "resolve"
    /\ ret.sid = "s2"
    /\ "s1" \in Tracked
    /\ contexts["s1"].lastResults # <<>>
    /\ extractOrdinalReference(ret.raw.session_query) # NoOrdinal
    /\ ret.out = ret.raw

\* s2 has been cleared and s1 is there with its recorded call.
C27_ClearWitness ==
    /\ ret.op = "clear"
    /\ ret.sid = "s2"
    /\ ret.removed = {"s2"}
    /\ "s1" \in Tracked
    /\ recorded["s1"] = 1

C29_RetainedWitness ==
    /\ ret.op = "cleanup"
    /\ ret.removed = {}
    /\ "s1" \in Tracked
    /\ recorded["s1"] = 1
    /\ now - contexts["s1"].createdAt > CONTEXT_TIMEOUT
    /\ contexts["s1"].lastActivity > contexts["s1"].createdAt + CONTEXT_TIMEOUT

\* updateContext has recorded a call on a context that had been idle for longer
\* than the timeout.
C29_UpdateWitness ==
    /\ ret.op = "update"
    /\ ret.stale
    /\ Resolved.createdAt < now - CONTEXT_TIMEOUT

\* C21 (SpecDispatch): for the request whose continuation ran last, whichever
\* handler took it, resolveContextualQuery was called once before the fetch, the
\* fetch got the resolved parameters, and updateContext was called once after it
\* with those parameters and the result of the fetch.
C21_ResolveFetchRecord ==
    voice.last # NoRequest =>
        /\ Len(voice.last.resolved) = 1
        /\ voice.last.fetched = voice.last.resolved[1]
        /\ voice.updates = 1
        /\ voice.lastUpdate[voice.last.sid] = voice.last
        /\ contexts[voice.last.sid].lastQuery.parameters = voice.last.fetched
        /\ contexts[voice.last.sid].lastResults = voice.result.data

\* The requests of a session that call the ContextManager and are suspended.
PendingOn(s) ==
    {r \in voice.pending : r.sid = s /\ r.handler # "handleFunctionCallWebhook"}

\* C28 (SpecDispatch): every function-call event was resolved when all the calls
\* dispatched before it on its session had been recorded, and once none is
\* suspended lastQuery and lastResults are those of the call dispatched last.
C28_CallsSeeEarlierCalls ==
    /\ \A r \in voice.pending \cup {voice.last} :
          r.handler = "executeFunctionCall" => r.seen = r.before
    /\ \A s \in SessionIds :
          (voice.recording[s] > 0 /\ PendingOn(s) = {}) =>
              /\ voice.lastUpdate[s].before = voice.recording[s] - 1
              /\ contexts[s].lastQuery.parameters = voice.lastUpdate[s].fetched

C30_RecordedWitness ==
    /\ ret.op = "update"
    /\ voice.lastUpdate[ret.sid] = voice.last
    /\ ~voice.result.success
    /\ Len(Resolved.conversationHistory) = 2
    /\ Resolved.conversationHistory[1].success

====
